---- MODULE Spec2Model ----
(***************************************************************************)
(* Typed decoding layer of the Kraken API client (types.go):               *)
(*   - OrderBookItem.UnmarshalJSON : [price_str, size_str, ts] -> level    *)
(*   - NewOHLC                     : 8-element []interface{} -> *OHLC      *)
(*   - TickerResponse.GetPairTickerInfo : reflective pair lookup           *)
(* The three operations are pure functions of their inputs (plus, for      *)
(* UnmarshalJSON, the receiver).  Each specification below draws the       *)
(* inputs in its initial states and applies the operation as one action.   *)
(*                                                                         *)
(* Encodings                                                               *)
(*   Go string      : sequence of one-character strings over Alphabet      *)
(*   float64 parsed : integer in units of 10^-MaxStrLen (see Scale)        *)
(*   JSON number    : integer h standing for h/2 (canonical literal, so    *)
(*                    the literal is an integer literal iff h is even)     *)
(*   Go pointer     : <<>> for nil, <<x>> for a pointer to x               *)
(***************************************************************************)
EXTENDS Integers, Sequences, FiniteSets, TLC

VARIABLES pc, op, o, old, data, x, round, input, v, pair, ret

vars == <<pc, op, o, old, data, x, round, input, v, pair, ret>>

----------------------------------------------------------------------------
(* Bounds of the model *)

\* longest Go string drawn for a numeric-string position
MaxStrLen == 2
\* longest JSON array handed to OrderBookItem.UnmarshalJSON
MaxArrLen == 4
\* JSON numbers range over -MaxNum .. MaxNum in steps of 1/2
MaxNum == 1
\* longest slice handed to NewOHLC
MaxCandleLen == 9

Digits == {"0", "1"}
Alphabet == Digits \cup {".", "a"}

RECURSIVE Pow10(_)
Pow10(n) == IF n = 0 THEN 1 ELSE 10 * Pow10(n - 1)

\* one unit of a parsed float64 is 1/Scale
Scale == Pow10(MaxStrLen)

StrsOfLen(n) == [1..n -> Alphabet]
Strs == UNION {StrsOfLen(n) : n \in 0..MaxStrLen}

----------------------------------------------------------------------------
(* Errors.  One record shape for every Go error value that the decoders    *)
(* can return; fields that an error type does not have are left empty.     *)

NoErr == [kind |-> "nil", Value |-> "", Type |-> "", Func |-> "", Num |-> <<>>, n |-> -1]

\* *json.SyntaxError
SyntaxError == [NoErr EXCEPT !.kind = "SyntaxError"]

\* *json.UnmarshalTypeError{Value, Type}; its Field is empty for a slice target
UnmarshalTypeError(value, type) ==
    [NoErr EXCEPT !.kind = "UnmarshalTypeError", !.Value = value, !.Type = type]

\* *strconv.NumError{Func: "ParseFloat", Num: s, Err: ErrSyntax}
NumError(s) == [NoErr EXCEPT !.kind = "NumError", !.Func = "ParseFloat", !.Num = s]

\* fmt.Errorf("the length is not 8 but %d", n)
LengthError(n) == [NoErr EXCEPT !.kind = "errorString", !.Value = "the length is not 8 but %d", !.n = n]

----------------------------------------------------------------------------
(* strconv.ParseFloat(s, 64) on strings over Alphabet: an optional single  *)
(* '.', decimal digits, at least one digit; anything else is ErrSyntax and *)
(* the returned value is 0.                                                *)

IsDigit(c) == c \in {"0", "1", "2", "3", "4", "5", "6", "7", "8", "9"}

DigitVal(c) == CASE c = "0" -> 0 [] c = "1" -> 1 [] c = "2" -> 2 [] c = "3" -> 3
                 [] c = "4" -> 4 [] c = "5" -> 5 [] c = "6" -> 6 [] c = "7" -> 7
                 [] c = "8" -> 8 [] c = "9" -> 9

Dots(s) == {i \in 1..Len(s) : s[i] = "."}

ValidFloat(s) ==
    /\ \A i \in 1..Len(s) : IsDigit(s[i]) \/ s[i] = "."
    /\ Cardinality(Dots(s)) <= 1
    /\ \E i \in 1..Len(s) : IsDigit(s[i])

\* the decimal mantissa: the digits of s read as one integer
RECURSIVE Mantissa(_, _)
Mantissa(s, acc) ==
    IF s = <<>> THEN acc
    ELSE IF s[1] = "." THEN Mantissa(Tail(s), acc)
    ELSE Mantissa(Tail(s), 10 * acc + DigitVal(s[1]))

\* number of digits after the decimal point
FracDigits(s) ==
    IF Dots(s) = {} THEN 0 ELSE Len(s) - (CHOOSE i \in Dots(s) : TRUE)

ParseFloat(s) ==
    IF ValidFloat(s)
    THEN [f |-> Mantissa(s, 0) * Pow10(MaxStrLen - FracDigits(s)), err |-> NoErr]
    ELSE [f |-> 0, err |-> NumError(s)]

----------------------------------------------------------------------------
(* JSON / interface{} values *)

Null == [t |-> "null", s |-> <<>>, n |-> 0]
Bool == [t |-> "bool", s |-> <<>>, n |-> 0]
Str(s) == [t |-> "string", s |-> s, n |-> 0]
Num(h) == [t |-> "number", s |-> <<>>, n |-> h]

Nums == (0 - 2 * MaxNum) .. (2 * MaxNum)

\* the literal of Num(h) is an integer literal
IsIntLit(h) == h % 2 = 0

\* int64(f) for the float64 h/2: truncation toward zero
TruncToInt(h) == IF h >= 0 THEN h \div 2 ELSE 0 - ((0 - h) \div 2)

\* the values a JSON array element is drawn from
Elems == {Str(s) : s \in Strs} \cup {Num(h) : h \in Nums} \cup {Null, Bool}

----------------------------------------------------------------------------
(* OrderBookItem (types.go 281-311) *)

ZeroItem == [Price |-> 0, Amount |-> 0, Ts |-> 0]

\* json.Unmarshal of one array element into the *string held by tmpArray[i]
DecodeString(e, cur) ==
    CASE e.t = "string" -> [val |-> e.s, err |-> NoErr]
      [] e.t = "null"   -> [val |-> cur, err |-> NoErr]
      [] OTHER          -> [val |-> cur, err |-> UnmarshalTypeError(e.t, "string")]

\* json.Unmarshal of one array element into the *int64 held by tmpArray[2]
\* (Go's error Value also quotes the literal, "number 1.5")
DecodeInt64(e, cur) ==
    CASE e.t = "number" /\ IsIntLit(e.n) -> [val |-> e.n \div 2, err |-> NoErr]
      [] e.t = "null"                    -> [val |-> cur, err |-> NoErr]
      [] OTHER                           -> [val |-> cur, err |-> UnmarshalTypeError(e.t, "int64")]

FirstErr(errs) ==
    IF \E i \in 1..Len(errs) : errs[i] # NoErr
    THEN errs[CHOOSE i \in 1..Len(errs) :
                 errs[i] # NoErr /\ \A j \in 1..(i - 1) : errs[j] = NoErr]
    ELSE NoErr

\* a JSON document: malformed bytes, or a value of kind t; a holds the
\* elements of an array, obj the struct an object was encoded from
Doc(t, a, obj) == [t |-> t, a |-> a, obj |-> obj]

\* json.Unmarshal(data, &tmpArray) with tmpArray = {&price, &amount, &ts}:
\* the first three elements are stored through the pointers, a shorter
\* array truncates the slice, a longer one grows it; neither is an error.
jsonUnmarshal(d) ==
    LET zero == [price |-> <<>>, amount |-> <<>>, ts |-> 0] IN
    CASE d.t = "malformed" -> [tmp |-> zero, err |-> SyntaxError]
      [] d.t = "null"      -> [tmp |-> zero, err |-> NoErr]
      [] d.t = "array"     ->
           LET a  == d.a
               r1 == IF Len(a) >= 1 THEN DecodeString(a[1], <<>>) ELSE [val |-> <<>>, err |-> NoErr]
               r2 == IF Len(a) >= 2 THEN DecodeString(a[2], <<>>) ELSE [val |-> <<>>, err |-> NoErr]
               r3 == IF Len(a) >= 3 THEN DecodeInt64(a[3], 0) ELSE [val |-> 0, err |-> NoErr]
           IN [tmp |-> [price |-> r1.val, amount |-> r2.val, ts |-> r3.val],
               err |-> FirstErr(<<r1.err, r2.err, r3.err>>)]
      [] OTHER             -> [tmp |-> zero, err |-> UnmarshalTypeError(d.t, "[]interface {}")]

\* StoreItem without the assignment o.Ts = tmpStruct.ts
StoreItemMutNoTs(recv, tmp) ==
    LET p == ParseFloat(tmp.price)
        a == ParseFloat(tmp.amount)
    IN IF p.err # NoErr THEN [o |-> [recv EXCEPT !.Price = p.f], err |-> p.err]
       ELSE IF a.err # NoErr
       THEN [o |-> [recv EXCEPT !.Price = p.f, !.Amount = a.f], err |-> a.err]
       ELSE [o |-> [Price |-> p.f, Amount |-> a.f, Ts |-> recv.Ts], err |-> NoErr]

\* the assignments to the receiver (lines 301-310): each ParseFloat result
\* is stored in the receiver before its error is tested
StoreItem(recv, tmp) ==
    LET p == ParseFloat(tmp.price)
        a == ParseFloat(tmp.amount)
    IN IF p.err # NoErr THEN [o |-> [recv EXCEPT !.Price = p.f], err |-> p.err]
       ELSE IF a.err # NoErr
       THEN [o |-> [recv EXCEPT !.Price = p.f, !.Amount = a.f], err |-> a.err]
       ELSE [o |-> [Price |-> p.f, Amount |-> a.f, Ts |-> tmp.ts], err |-> NoErr]

UnmarshalJSON(recv, d) ==
    LET u == jsonUnmarshal(d)
    IN IF u.err # NoErr THEN [o |-> recv, err |-> u.err]
       ELSE StoreItem(recv, u.tmp)

\* json.Marshal(x): OrderBookItem declares no MarshalJSON and its fields
\* are exported and untagged, so x encodes as the object
\* {"Price":..,"Amount":..,"Ts":..}
Marshal(item) == Doc("object", <<>>, <<item>>)

----------------------------------------------------------------------------
(* NewOHLC (types.go 344-373) *)

\* time.Unix(sec, 0)
Unix(sec) == [sec |-> sec, nsec |-> 0]

Ret(val, err) == [val |-> val, err |-> err, panic |-> FALSE]
Panic == [val |-> <<>>, err |-> NoErr, panic |-> TRUE]
NoRet == Ret(<<>>, NoErr)

\* OHLCLength testing len(input) < 8 and reporting the expected length
OHLCLengthMutExpected(inp) ==
    IF Len(inp) < 8 THEN <<LengthError(8)>> ELSE <<>>

\* lines 346-348: <<>> when the length check passes, else <<its error>>
OHLCLength(inp) ==
    IF Len(inp) # 8 THEN <<LengthError(Len(inp))>> ELSE <<>>

\* OHLCFields with High and Low read from each other's position
OHLCFieldsMutSwap(inp) ==
    [Time   |-> Unix(TruncToInt(inp[1].n)),
     Open   |-> ParseFloat(inp[2].s).f,
     High   |-> ParseFloat(inp[4].s).f,
     Low    |-> ParseFloat(inp[3].s).f,
     Close  |-> ParseFloat(inp[5].s).f,
     Vwap   |-> ParseFloat(inp[6].s).f,
     Volume |-> ParseFloat(inp[7].s).f,
     Count  |-> TruncToInt(inp[8].n)]

\* lines 350-358 once every type assertion holds; the errors of ParseFloat
\* are discarded, so an unparsable string leaves 0 in its field
OHLCFields(inp) ==
    [Time   |-> Unix(TruncToInt(inp[1].n)),
     Open   |-> ParseFloat(inp[2].s).f,
     High   |-> ParseFloat(inp[3].s).f,
     Low    |-> ParseFloat(inp[4].s).f,
     Close  |-> ParseFloat(inp[5].s).f,
     Vwap   |-> ParseFloat(inp[6].s).f,
     Volume |-> ParseFloat(inp[7].s).f,
     Count  |-> TruncToInt(inp[8].n)]

\* input[0].(float64), input[1..6].(string), input[7].(float64): a value of
\* another dynamic type makes the single-value assertion panic
AssertionsHold(inp) ==
    /\ inp[1].t = "number"
    /\ \A i \in 2..7 : inp[i].t = "string"
    /\ inp[8].t = "number"

NewOHLC(inp) ==
    IF OHLCLength(inp) # <<>> THEN Ret(<<>>, OHLCLength(inp)[1])
    ELSE IF ~AssertionsHold(inp) THEN Panic
    ELSE Ret(<<OHLCFields(inp)>>, NoErr)

----------------------------------------------------------------------------
(* TickerResponse.GetPairTickerInfo (types.go 115-144) *)

\* reflect.Indirect(reflect.ValueOf(v)).Kind() for v of type *TickerResponse:
\* the zero Value for a nil pointer, otherwise the map
IndirectKind(vp) == IF vp = <<>> THEN "invalid" ELSE "map"

\* Value.FieldByName panics unless the value's kind is Struct
GetPairTickerInfo(vp, name) ==
    IF IndirectKind(vp) # "struct" THEN Panic
    ELSE IF name \in DOMAIN vp[1] THEN Ret(<<vp[1][name]>>, NoErr)
    ELSE Panic

----------------------------------------------------------------------------
(* Inputs *)

\* receivers: a fresh OrderBookItem and one that already holds a level
\* (7, 3 and 9 are values no drawn input decodes to)
Receivers == {ZeroItem, [Price |-> 7 * Scale, Amount |-> 3 * Scale, Ts |-> 9]}

TsElems == {Num(h) : h \in Nums} \cup {Null, Bool, Str(<<"1">>)}

\* arrays [p, s, t, 0, 0, ...] cut to every length 0..MaxArrLen
OBArrays ==
    {[i \in 1..n |-> CASE i = 1 -> p [] i = 2 -> s [] i = 3 -> t [] OTHER -> Num(0)] :
        p \in Elems, s \in Elems, t \in TsElems, n \in 0..MaxArrLen}

OBDocs ==
    {Doc("array", a, <<>>) : a \in OBArrays}
    \cup {Doc(t, <<>>, <<>>) : t \in {"malformed", "null", "string", "number", "bool", "object"}}

ShortStrs == StrsOfLen(0) \cup StrsOfLen(1)

Candle(t, f, c) == <<t>> \o f \o <<c>>

BaseStrs == <<Str(<<"1">>), Str(<<"1", "1">>), Str(<<".", "1">>),
              Str(<<"1", "0">>), Str(<<"0">>), Str(<<"0", "1">>)>>

BaseCandle == Candle(Num(2), BaseStrs, Num(2))

\* 8-element candles: every combination of short strings, every pair of
\* numbers for time and count, and the base candle with one position
\* replaced by any element
Candles8 ==
    {Candle(Num(2), [i \in 1..6 |-> Str(f[i])], Num(0)) : f \in [1..6 -> ShortStrs]}
    \cup {Candle(Num(t), BaseStrs, Num(c)) : t \in Nums, c \in Nums}
    \cup {[BaseCandle EXCEPT ![i] = e] : i \in 1..8, e \in Elems}

\* the base candles cut or padded to every length 0..MaxCandleLen
CandlesAnyLen ==
    {[i \in 1..n |-> IF i <= 8 THEN b[i] ELSE Num(0)] :
        b \in {BaseCandle, [BaseCandle EXCEPT ![2] = Str(<<"a">>)], [BaseCandle EXCEPT ![8] = Null]},
        n \in 0..MaxCandleLen}

CandleInputs == Candles8 \cup CandlesAnyLen

Pairs == {"XXBTZEUR", "XETHZEUR", "XXBTZUSD"}
PairNames == Pairs \cup {"UNKNOWN"}
\* PairTickerInfo, reduced to its opening price
Infos == {[OpeningPrice |-> 300001], [OpeningPrice |-> 20005]}
\* *TickerResponse: nil, or a pointer to a map from some pairs to their info
TickerResponses == {<<>>} \cup {<<m>> : m \in UNION {[S -> Infos] : S \in SUBSET Pairs}}

NoDoc == Doc("null", <<>>, <<>>)

----------------------------------------------------------------------------
(* State machine.  pc is "call" before the operation op is applied to its  *)
(* input and "done" after it returned or panicked; old is the receiver as  *)
(* the caller passed it in, o the receiver, ret what the call produced.    *)

InitOB ==
    /\ pc = "call" /\ op = "UnmarshalJSON"
    /\ o \in Receivers /\ old = o
    /\ data \in OBDocs
    /\ x = ZeroItem /\ round = FALSE
    /\ input = <<>> /\ v = <<>> /\ pair = ""
    /\ ret = NoRet

InitOHLC ==
    /\ pc = "call" /\ op = "NewOHLC"
    /\ input \in CandleInputs
    /\ o = ZeroItem /\ old = ZeroItem /\ data = NoDoc
    /\ x = ZeroItem /\ round = FALSE
    /\ v = <<>> /\ pair = ""
    /\ ret = NoRet

InitTicker ==
    /\ pc = "call" /\ op = "GetPairTickerInfo"
    /\ v \in TickerResponses /\ pair \in PairNames
    /\ o = ZeroItem /\ old = ZeroItem /\ data = NoDoc
    /\ x = ZeroItem /\ round = FALSE
    /\ input = <<>>
    /\ ret = NoRet

Init == InitOB \/ InitOHLC \/ InitTicker

\* err := o.UnmarshalJSON(data)
CallUnmarshalJSON ==
    /\ pc = "call" /\ op = "UnmarshalJSON"
    /\ LET r == UnmarshalJSON(o, data)
       IN /\ o' = r.o
          /\ ret' = Ret(<<>>, r.err)
    /\ pc' = "done"
    /\ UNCHANGED <<op, old, data, x, round, input, v, pair>>

\* after a successful decode the caller re-encodes the level x with
\* json.Marshal and decodes the bytes into a fresh OrderBookItem
ReEncode ==
    /\ pc = "done" /\ op = "UnmarshalJSON"
    /\ ~round /\ ret.err = NoErr
    /\ x' = o
    /\ data' = Marshal(o)
    /\ o' = ZeroItem /\ old' = ZeroItem
    /\ round' = TRUE
    /\ ret' = NoRet
    /\ pc' = "call"
    /\ UNCHANGED <<op, input, v, pair>>

\* c, err := NewOHLC(input)
CallNewOHLC ==
    /\ pc = "call" /\ op = "NewOHLC"
    /\ ret' = NewOHLC(input)
    /\ pc' = "done"
    /\ UNCHANGED <<op, o, old, data, x, round, input, v, pair>>

\* info := v.GetPairTickerInfo(pair)
CallGetPairTickerInfo ==
    /\ pc = "call" /\ op = "GetPairTickerInfo"
    /\ ret' = GetPairTickerInfo(v, pair)
    /\ pc' = "done"
    /\ UNCHANGED <<op, o, old, data, x, round, input, v, pair>>

NextOB == CallUnmarshalJSON \/ ReEncode
NextOHLC == CallNewOHLC
NextTicker == CallGetPairTickerInfo

Next == CallUnmarshalJSON \/ ReEncode \/ CallNewOHLC \/ CallGetPairTickerInfo

SpecOB == InitOB /\ [][NextOB]_vars
SpecOHLC == InitOHLC /\ [][NextOHLC]_vars
SpecTicker == InitTicker /\ [][NextTicker]_vars
Spec == Init /\ [][Next]_vars

----------------------------------------------------------------------------
(* Properties *)

Returned(name) == pc = "done" /\ op = name

\* a level array [p, s, t]: two strings and an integer JSON number
LevelShaped(a) ==
    /\ Len(a) >= 1 => a[1].t = "string" /\ ValidFloat(a[1].s)
    /\ Len(a) >= 2 => a[2].t = "string" /\ ValidFloat(a[2].s)
    /\ Len(a) >= 3 => a[3].t = "number" /\ IsIntLit(a[3].n)

\* the error text states the length n
ErrNamesLength(e, n) == e.kind = "errorString" /\ e.n = n

\* C1: every JSON array whose length is not 3, with otherwise well-typed
\* elements, makes OrderBookItem.UnmarshalJSON fail with an error that
\* names the actual length; it never succeeds on such an array.
C1_WrongLengthFails ==
    (/\ Returned("UnmarshalJSON") /\ ~round
     /\ data.t = "array" /\ Len(data.a) # 3 /\ LevelShaped(data.a))
    => (ret.err # NoErr /\ ErrNamesLength(ret.err, Len(data.a)))

\* an 8-element candle whose elements all have the dynamic type of their position
CandleShaped(inp) == Len(inp) = 8 /\ AssertionsHold(inp)

\* C2: an 8-element candle in which one of the six numeric-string positions
\* (indexes 1..6) holds an unparsable string makes NewOHLC fail with an
\* error; it never returns a record with that field zero.
C2_UnparsableCandleFails ==
    (/\ Returned("NewOHLC") /\ CandleShaped(input)
     /\ \E i \in 2..7 : ~ValidFloat(input[i].s))
    => (~ret.panic /\ ret.err # NoErr /\ ret.val = <<>>)

\* C3: GetPairTickerInfo(pair) completes without crashing for every
\* TickerResponse and pair: it returns the record stored under the key when
\* the key is present and a not-found signal when it is absent.
C3_PairLookup ==
    (Returned("GetPairTickerInfo") /\ v # <<>>)
    => /\ ~ret.panic
       /\ pair \in DOMAIN v[1] => ret.val = <<v[1][pair]>>
       /\ pair \notin DOMAIN v[1] => (ret.val = <<>> /\ ret.err # NoErr)

\* C4: for every candle input whose length is not 8, NewOHLC returns nil
\* and an error that names the actual length; for an input of length 8 the
\* length check produces no such error.
C4_CandleLength ==
    Returned("NewOHLC")
    => /\ Len(input) # 8 =>
            (~ret.panic /\ ret.val = <<>> /\ ErrNamesLength(ret.err, Len(input)))
       /\ Len(input) = 8 => ret.err.kind # "errorString"

C4_Witness ==
    /\ Returned("NewOHLC") /\ Len(input) = 9
    /\ ret.val = <<>> /\ ret.err.n = 9

\* a candle [time, open, high, low, close, vwap, volume, count] with integer
\* time and count and six parsable numeric strings
WellTypedCandle(inp) ==
    /\ CandleShaped(inp)
    /\ IsIntLit(inp[1].n) /\ IsIntLit(inp[8].n)
    /\ \A i \in 2..7 : ValidFloat(inp[i].s)

\* C5: for every well-typed 8-element candle NewOHLC returns, with a nil
\* error, the record whose Time is time_epoch seconds after the Unix epoch,
\* whose Open, High, Low, Close, Vwap and Volume are the parsed values of
\* positions 1..6 in that order, and whose Count is count_num.
C5_CandleDecoded ==
    (Returned("NewOHLC") /\ WellTypedCandle(input))
    => /\ ~ret.panic /\ ret.err = NoErr /\ Len(ret.val) = 1
       /\ ret.val[1].Time = [sec |-> input[1].n \div 2, nsec |-> 0]
       /\ ret.val[1].Open = ParseFloat(input[2].s).f
       /\ ret.val[1].High = ParseFloat(input[3].s).f
       /\ ret.val[1].Low = ParseFloat(input[4].s).f
       /\ ret.val[1].Close = ParseFloat(input[5].s).f
       /\ ret.val[1].Vwap = ParseFloat(input[6].s).f
       /\ ret.val[1].Volume = ParseFloat(input[7].s).f
       /\ ret.val[1].Count = input[8].n \div 2

C5_Witness ==
    /\ Returned("NewOHLC") /\ WellTypedCandle(input)
    /\ input[1] = Num(2) /\ input[8] = Num(-2)
    /\ ret.val # <<>>
    /\ ret.val[1].Open = Scale /\ ret.val[1].High = 11 * Scale
    /\ ret.val[1].Low * 10 = Scale /\ ret.val[1].Count = -1

\* a 3-element level array with parsable price and size and an integer ts
ValidLevel(d) == d.t = "array" /\ Len(d.a) = 3 /\ LevelShaped(d.a)

\* C6: for every 3-element array [p, s, t] with parsable numeric strings p
\* and s and an integer t, UnmarshalJSON returns no error and leaves the
\* receiver with Price = parse(p), Amount = parse(s), Ts = t, whatever the
\* receiver held before.
C6_LevelDecoded ==
    (Returned("UnmarshalJSON") /\ ValidLevel(data))
    => /\ ret.err = NoErr
       /\ o = [Price  |-> ParseFloat(data.a[1].s).f,
               Amount |-> ParseFloat(data.a[2].s).f,
               Ts     |-> data.a[3].n \div 2]

C6_Witness ==
    /\ Returned("UnmarshalJSON") /\ ValidLevel(data)
    /\ old # ZeroItem
    /\ o.Price = 11 * Scale /\ o.Amount * 10 = Scale /\ o.Ts = -1

\* a 3-element array of two strings and an integer ts
StringLevel(d) ==
    /\ d.t = "array" /\ Len(d.a) = 3
    /\ d.a[1].t = "string" /\ d.a[2].t = "string"
    /\ d.a[3].t = "number" /\ IsIntLit(d.a[3].n)

\* the field whose string fails to parse first
FailingField(d) ==
    IF ~ValidFloat(d.a[1].s) THEN "price"
    ELSE IF ~ValidFloat(d.a[2].s) THEN "size"
    ELSE "none"

\* the same level with price and size exchanged
Swapped(d) == [d EXCEPT !.a = <<d.a[2], d.a[1], d.a[3]>>]

\* C7: a 3-element level whose price or size string is unparsable makes
\* UnmarshalJSON return a non-nil error that identifies which of the two
\* fields failed (so a price failure and a size failure never produce the
\* same error); it never returns success.
C7_ParseErrorNamesField ==
    (Returned("UnmarshalJSON") /\ StringLevel(data) /\ FailingField(data) # "none")
    => /\ ret.err # NoErr
       /\ FailingField(Swapped(data)) \notin {"none", FailingField(data)}
            => UnmarshalJSON(ZeroItem, Swapped(data)).err # ret.err

\* C8: whenever UnmarshalJSON returns a non-nil error, the receiver's
\* Price, Amount and Ts are what they were before the call.
C8_NoPartialRecord ==
    (Returned("UnmarshalJSON") /\ ret.err # NoErr) => o = old

\* C9: re-encoding a successfully decoded level x to JSON and decoding the
\* result with UnmarshalJSON succeeds and yields a level equal to x.
C9_RoundTrip ==
    (Returned("UnmarshalJSON") /\ round) => (ret.err = NoErr /\ o = x)

\* C10: an 8-element candle with a value of the wrong type at some position
\* makes NewOHLC return a decoding error; it neither crashes nor returns a
\* record.
C10_TypeMismatchError ==
    (Returned("NewOHLC") /\ Len(input) = 8 /\ ~AssertionsHold(input))
    => (~ret.panic /\ ret.err # NoErr /\ ret.val = <<>>)

====
